---- MODULE Spec2Model ----
(***************************************************************************)
(* A model of the subnetwork crate (src/src/lib.rs): the CIDR pools        *)
(* Ipv4Pool / Ipv6Pool, the ranges CrossIpv4Pool / CrossIpv6Pool, and the  *)
(* address types Ipv4 / Ipv6 with their derived-address operations.        *)
(*                                                                         *)
(* A u32 / u128 value is the set of the positions of its set bits (bit 0   *)
(* is the least significant), so the arithmetic keeps its exact width: 32  *)
(* and 128 bits.  An Ipv4Addr is its four octets, an Ipv6Addr its eight    *)
(* 16-bit segments, a &str the sequence of its characters.                 *)
(*                                                                         *)
(* Integer overflow in Rust depends on the build: with overflow checks (a  *)
(* debug build) the operation panics, without them (a release build) it    *)
(* wraps.  The variable overflow_checks is chosen in Init and both builds  *)
(* are explored.                                                           *)
(***************************************************************************)
EXTENDS Integers, Sequences, FiniteSets, TLC

VARIABLES
    overflow_checks,  \* TRUE: the build panics on overflow; FALSE: it wraps
    pool,             \* the Ipv4Pool / Ipv6Pool instance (kind "none": not built)
    cross,            \* the CrossIpv4Pool / CrossIpv6Pool instance
    made,             \* history: the constructor call that built the instance
    out,              \* history: the addresses the instance's next() has yielded
    calls,            \* history: the number of next() calls on the instance
    ret,              \* the last call on the instance or on an address: [op, args, tag, val]
    other             \* a second pool of the same run: its constructor, fields, yields, calls

vars == <<overflow_checks, pool, cross, made, out, calls, ret, other>>

INIT_NEXT_VALUE == 1
IPV4_LEN == 32
IPV6_LEN == 128
U8_BITS == 8
USIZE_BITS == 64

\* The largest number of next() calls made in one run.
MaxCalls == 5

\* let v = ...; F(v): the value is computed once and then used.
With(v, F(_)) == CHOOSE r \in {F(x) : x \in {v}} : TRUE

----------------------------------------------------------------------------
(* Fixed-width unsigned integers as sets of bit positions.                 *)

Pow2Nat(n) == 2 ^ n

\* The bits of a natural number below 2^k (k <= 30).
Bits(n, k) == {i \in 0..(k - 1) : (n \div Pow2Nat(i)) % 2 = 1}

\* The bits of a small number: a literal or a loop counter (below 2^9).
NatBits(n) == Bits(n, 9)

\* u32::MAX, u128::MAX: all w bits set.
MaxOf(w) == 0..(w - 1)

BitAnd(a, b) == a \cap b
BitNot(a, w) == MaxOf(w) \ a

\* The value of the n bits of x from bit lo upwards, as a number (n <= 16).
RECURSIVE FieldVal(_, _, _)
FieldVal(x, lo, n) ==
    IF n = 0 THEN 0
    ELSE (IF lo \in x THEN 1 ELSE 0) + 2 * FieldVal(x, lo + 1, n - 1)

\* a < b and a <= b on unsigned integers: the highest differing bit decides.
Lt(a, b) == \E i \in b \ a : \A j \in a \ b : j < i
Le(a, b) == a = b \/ Lt(a, b)

\* The carry into bit i of a sum: some lower bit j generates a carry (both
\* bits set: j in gen) and every bit between j and i passes it on (a bit set:
\* in pass).  The borrow into bit i of a difference a - b likewise: some lower
\* bit borrows (0 - 1: gen) and no bit in between absorbs it (1 - 0: not pass).
CarryInto(gen, pass, i) ==
    \E j \in gen : j < i /\ \A k \in (j + 1)..(i - 1) : k \in pass

\* The sum or difference whose bits without carries are one.
Rippled(gen, pass, one, w) ==
    [of  |-> CarryInto(gen, pass, w),
     val |-> {i \in MaxOf(w) : (i \in one) # CarryInto(gen, pass, i)}]

\* The outcome of an arithmetic operation at width w: of (it overflowed:
\* the carry or borrow leaves bit w - 1), val (the wrapped result).
Add(a, b, w) ==
    CHOOSE r \in {Rippled(x \cap y, x \cup y, (x \cup y) \ (x \cap y), w) :
                     x \in {a}, y \in {b}} : TRUE
Sub(a, b, w) ==
    CHOOSE r \in {Rippled(y \ x, MaxOf(w) \ (x \ y), (x \ y) \cup (y \ x), w) :
                     x \in {a}, y \in {b}} : TRUE

\* u32::pow(2, exp) / u128::pow(2, exp): 2^exp, which wraps to 0 from exp = w on.
Pow2(exp, w) == [of |-> exp >= w, val |-> IF exp < w THEN {exp} ELSE {}]

\* value as usize: zero-extended or truncated to the platform's word.
AsUsize(x) == x \cap MaxOf(USIZE_BITS)

\* a - b on u8 (IPV4_LEN - prefix_length).
SubU8(a, b) ==
    [of |-> a < b, val |-> IF a < b THEN a - b + Pow2Nat(U8_BITS) ELSE a - b]

----------------------------------------------------------------------------
(* std::net addresses and their conversions to and from integers.          *)

\* u32::from(Ipv4Addr): (a << 24) | (b << 16) | (c << 8) | d.
Ipv4ToU32(ip) ==
    UNION {{i + 8 * (4 - k) : i \in Bits(ip[k], 8)} : k \in 1..4}

\* Ipv4Addr::from(u32).
U32ToIpv4(x) == [k \in 1..4 |-> FieldVal(x, 8 * (4 - k), 8)]

\* u128::from(Ipv6Addr): s0 << 112 | s1 << 96 | ... | s7.
Ipv6ToU128(ip) ==
    UNION {{i + 16 * (8 - k) : i \in Bits(ip[k], 16)} : k \in 1..8}

\* Ipv6Addr::from(u128).
U128ToIpv6(x) == [k \in 1..8 |-> FieldVal(x, 16 * (8 - k), 16)]

----------------------------------------------------------------------------
(* Results.                                                                *)

Ok(v) == [tag |-> "Ok", val |-> v]
Some(v) == [tag |-> "Some", val |-> v]
None == [tag |-> "None", val |-> <<>>]
InvalidInputError == [tag |-> "Err", val |-> "InvalidInputError"]
AddrParseError == [tag |-> "Err", val |-> "AddrParseError"]
Panic(why) == [tag |-> "Panic", val |-> why]

\* A checked operation r followed by F of its value: with overflow checks an
\* overflow panics, without them the wrapped value goes on.
Checked(r, why, F(_)) ==
    CHOOSE res \in {IF x.of /\ overflow_checks THEN Panic(why) ELSE F(x.val) : x \in {r}} : TRUE

SubOverflow == "attempt to subtract with overflow"
AddOverflow == "attempt to add with overflow"
MulOverflow == "attempt to multiply with overflow"

NoPool == [kind |-> "none", prefix |-> {}, mask |-> {}, next |-> {}, stop |-> {}]
NoCross == [kind |-> "none", start |-> {}, end |-> {}, next |-> {}]

----------------------------------------------------------------------------
(* Pool construction.                                                      *)

\* for _ in 0..n { mask <<= 1; }: n shifts by one move every bit up n places
\* and drop the bits that leave the width.
ShlLoop(mask, n, w) == {i + n : i \in mask} \cap MaxOf(w)

\* The pool fields with the cursor starting at the network address.
Ipv4PoolFields_from_network(addr, prefix_length) ==
    Checked(SubU8(IPV4_LEN, prefix_length), SubOverflow, LAMBDA exp :
    Checked(Pow2(exp, IPV4_LEN), MulOverflow, LAMBDA stop :
    With(ShlLoop(MaxOf(IPV4_LEN), exp, IPV4_LEN), LAMBDA mask :
        Ok([kind |-> "Ipv4Pool", prefix |-> BitAnd(addr, mask), mask |-> mask,
            next |-> {}, stop |-> stop]))))

\* The body shared by Ipv4Pool::new, Ipv4Pool::from and Ipv4::iter: the mask
\* loop, exp, next, stop = u32::pow(2, exp), prefix = addr & mask.
Ipv4PoolFields(addr, prefix_length) ==
    Checked(SubU8(IPV4_LEN, prefix_length), SubOverflow, LAMBDA exp :
    Checked(Pow2(exp, IPV4_LEN), MulOverflow, LAMBDA stop :
    With(ShlLoop(MaxOf(IPV4_LEN), exp, IPV4_LEN), LAMBDA mask :
        Ok([kind |-> "Ipv4Pool", prefix |-> BitAnd(addr, mask), mask |-> mask,
            next |-> NatBits(INIT_NEXT_VALUE), stop |-> stop]))))

Ipv6PoolFields(addr, prefix_length) ==
    Checked(SubU8(IPV6_LEN, prefix_length), SubOverflow, LAMBDA exp :
    Checked(Pow2(exp, IPV6_LEN), MulOverflow, LAMBDA stop :
    With(ShlLoop(MaxOf(IPV6_LEN), exp, IPV6_LEN), LAMBDA mask :
        Ok([kind |-> "Ipv6Pool", prefix |-> BitAnd(addr, mask), mask |-> mask,
            next |-> NatBits(INIT_NEXT_VALUE), stop |-> stop]))))

\* Ipv4Pool::new without its range check, which is how Ipv4::iter builds a pool.
Ipv4Pool_new_any_prefix(address, prefix_length) ==
    Ipv4PoolFields(Ipv4ToU32(address), prefix_length)

Ipv4Pool_new(address, prefix_length) ==
    IF prefix_length > 32 THEN InvalidInputError
    ELSE Ipv4PoolFields(Ipv4ToU32(address), prefix_length)

Ipv6Pool_new(address, prefix_length) ==
    IF prefix_length > 128 THEN InvalidInputError
    ELSE Ipv6PoolFields(Ipv6ToU128(address), prefix_length)

Ipv4_new(address) == [addr |-> Ipv4ToU32(address)]
Ipv6_new(address) == [addr |-> Ipv6ToU128(address)]

\* Ipv4::iter keeping the whole address as the prefix.
Ipv4_iter_unmasked(self, prefix_length) ==
    With(Ipv4PoolFields(self.addr, prefix_length), LAMBDA r :
        IF r.tag = "Ok" THEN Ok([r.val EXCEPT !.prefix = self.addr]) ELSE r)

\* Ipv4::iter returns the pool itself, not a Result: Ok stands for the return.
Ipv4_iter(self, prefix_length) == Ipv4PoolFields(self.addr, prefix_length)
Ipv6_iter(self, prefix_length) == Ipv6PoolFields(self.addr, prefix_length)

\* CrossIpv4Pool::new comparing with < where the code compares with <=.
CrossIpv4Pool_new_strict(start, end) ==
    With(Ipv4_new(start), LAMBDA start_ipv4 :
    With(Ipv4_new(end), LAMBDA end_ipv4 :
        IF Lt(start_ipv4.addr, end_ipv4.addr)
        THEN Ok([kind |-> "CrossIpv4Pool", start |-> start_ipv4.addr,
                 end |-> end_ipv4.addr, next |-> start_ipv4.addr])
        ELSE InvalidInputError))

CrossIpv4Pool_new(start, end) ==
    With(Ipv4_new(start), LAMBDA start_ipv4 :
    With(Ipv4_new(end), LAMBDA end_ipv4 :
        IF Le(start_ipv4.addr, end_ipv4.addr)
        THEN Ok([kind |-> "CrossIpv4Pool", start |-> start_ipv4.addr,
                 end |-> end_ipv4.addr, next |-> start_ipv4.addr])
        ELSE InvalidInputError))

CrossIpv6Pool_new(start, end) ==
    With(Ipv6_new(start), LAMBDA start_ipv6 :
    With(Ipv6_new(end), LAMBDA end_ipv6 :
        IF Le(start_ipv6.addr, end_ipv6.addr)
        THEN Ok([kind |-> "CrossIpv6Pool", start |-> start_ipv6.addr,
                 end |-> end_ipv6.addr, next |-> start_ipv6.addr])
        ELSE InvalidInputError))

----------------------------------------------------------------------------
(* Iterator::next: the instance after the call and what the call returned.  *)

\* The instance after a next() that got as far as r: a panic leaves it as it
\* was, a yield stores the advanced cursor r.next.
Advanced(self, r) ==
    IF r.tag = "Panic" THEN [self |-> self, res |-> r]
    ELSE [self |-> [self EXCEPT !.next = r.next], res |-> Some(r.val)]

\* Ipv4Pool's next() rewinding the cursor when it returns None.
Ipv4Pool_next_rewinding(self) ==
    IF Lt(self.next, self.stop)
    THEN With(Checked(Add(self.prefix, self.next, IPV4_LEN), AddOverflow, LAMBDA r :
              Checked(Add(self.next, NatBits(1), IPV4_LEN), AddOverflow, LAMBDA n :
                  [tag |-> "Some", val |-> U32ToIpv4(r), next |-> n])),
              LAMBDA r : Advanced(self, r))
    ELSE [self |-> [self EXCEPT !.next = NatBits(INIT_NEXT_VALUE)], res |-> None]

Ipv4Pool_next(self) ==
    IF Lt(self.next, self.stop)
    THEN With(Checked(Add(self.prefix, self.next, IPV4_LEN), AddOverflow, LAMBDA r :
              Checked(Add(self.next, NatBits(1), IPV4_LEN), AddOverflow, LAMBDA n :
                  [tag |-> "Some", val |-> U32ToIpv4(r), next |-> n])),
              LAMBDA r : Advanced(self, r))
    ELSE [self |-> self, res |-> None]

\* Ipv6Pool's next() adding the cursor into prefix instead of into a local.
Ipv6Pool_next_moving_prefix(self) ==
    IF Lt(self.next, self.stop)
    THEN With(Checked(Add(self.prefix, self.next, IPV6_LEN), AddOverflow, LAMBDA r :
              Checked(Add(self.next, NatBits(1), IPV6_LEN), AddOverflow, LAMBDA n :
                  [tag |-> "Some", val |-> U128ToIpv6(r), next |-> n, prefix |-> r])),
              LAMBDA r :
                  IF r.tag = "Panic" THEN [self |-> self, res |-> r]
                  ELSE [self |-> [self EXCEPT !.next = r.next, !.prefix = r.prefix],
                        res |-> Some(r.val)])
    ELSE [self |-> self, res |-> None]

Ipv6Pool_next(self) ==
    IF Lt(self.next, self.stop)
    THEN With(Checked(Add(self.prefix, self.next, IPV6_LEN), AddOverflow, LAMBDA r :
              Checked(Add(self.next, NatBits(1), IPV6_LEN), AddOverflow, LAMBDA n :
                  [tag |-> "Some", val |-> U128ToIpv6(r), next |-> n])),
              LAMBDA r : Advanced(self, r))
    ELSE [self |-> self, res |-> None]

CrossIpv4Pool_next(self) ==
    IF Le(self.next, self.end)
    THEN With(Checked(Add(self.next, NatBits(1), IPV4_LEN), AddOverflow, LAMBDA n :
                  [tag |-> "Some", val |-> U32ToIpv4(self.next), next |-> n]),
              LAMBDA r : Advanced(self, r))
    ELSE [self |-> self, res |-> None]

CrossIpv6Pool_next(self) ==
    IF Le(self.next, self.end)
    THEN With(Checked(Add(self.next, NatBits(1), IPV6_LEN), AddOverflow, LAMBDA n :
                  [tag |-> "Some", val |-> U128ToIpv6(self.next), next |-> n]),
              LAMBDA r : Advanced(self, r))
    ELSE [self |-> self, res |-> None]

----------------------------------------------------------------------------
(* Pool queries.                                                           *)

\* Ipv4Pool::contain comparing the whole address, the mask left out.
Ipv4Pool_contain_unmasked(self, address) ==
    Ipv4ToU32(address) = self.prefix

Ipv4Pool_contain(self, address) ==
    BitAnd(Ipv4ToU32(address), self.mask) = self.prefix

Ipv6Pool_contain(self, address) ==
    BitAnd(Ipv6ToU128(address), self.mask) = self.prefix

Ipv4Pool_network(self) == U32ToIpv4(self.prefix)
Ipv6Pool_network(self) == U128ToIpv6(self.prefix)

Ipv4Pool_broadcast(self) ==
    Checked(Add(self.prefix, BitNot(self.mask, IPV4_LEN), IPV4_LEN), AddOverflow,
            LAMBDA r : Ok(U32ToIpv4(r)))

Ipv4Pool_size(self) ==
    Checked(Add(BitNot(self.mask, IPV4_LEN), NatBits(1), IPV4_LEN), AddOverflow,
            LAMBDA biggest : Ok(AsUsize(biggest)))

Ipv6Pool_size(self) ==
    Checked(Add(BitNot(self.mask, IPV6_LEN), NatBits(1), IPV6_LEN), AddOverflow,
            LAMBDA biggest : Ok(AsUsize(biggest)))

Ipv4Pool_len(self) ==
    Checked(Sub(BitNot(self.mask, IPV4_LEN), NatBits(1), IPV4_LEN), SubOverflow,
            LAMBDA length : Ok(AsUsize(length)))

Ipv6Pool_len(self) ==
    Checked(Sub(BitNot(self.mask, IPV6_LEN), NatBits(1), IPV6_LEN), SubOverflow,
            LAMBDA length : Ok(AsUsize(length)))

----------------------------------------------------------------------------
(* Address operations.                                                     *)

\* Ipv4::within / Ipv6::within: addr & subnet_address.mask == subnet_address.prefix.
Ipv4_within(self, subnet_address) ==
    BitAnd(self.addr, subnet_address.mask) = subnet_address.prefix

Ipv6_within(self, subnet_address) ==
    BitAnd(self.addr, subnet_address.mask) = subnet_address.prefix

Ipv4_network(self, prefix_length) ==
    Checked(SubU8(IPV4_LEN, prefix_length), SubOverflow, LAMBDA n :
        Ok(U32ToIpv4(BitAnd(self.addr, ShlLoop(MaxOf(IPV4_LEN), n, IPV4_LEN)))))

Ipv6_network(self, prefix_length) ==
    Checked(SubU8(IPV6_LEN, prefix_length), SubOverflow, LAMBDA n :
        Ok(U128ToIpv6(BitAnd(self.addr, ShlLoop(MaxOf(IPV6_LEN), n, IPV6_LEN)))))

Ipv4_broadcast(self, prefix_length) ==
    Checked(SubU8(IPV4_LEN, prefix_length), SubOverflow, LAMBDA exp :
    Checked(Pow2(exp, IPV4_LEN), MulOverflow, LAMBDA pow :
    Checked(Sub(pow, NatBits(1), IPV4_LEN), SubOverflow, LAMBDA biggest :
    Checked(Add(BitAnd(self.addr, ShlLoop(MaxOf(IPV4_LEN), exp, IPV4_LEN)), biggest,
                IPV4_LEN), AddOverflow, LAMBDA r :
        Ok(U32ToIpv4(r))))))

Ipv4_size(self, prefix_length) ==
    Checked(SubU8(IPV4_LEN, prefix_length), SubOverflow, LAMBDA exp :
    Checked(Pow2(exp, IPV4_LEN), MulOverflow, LAMBDA biggest :
        Ok(AsUsize(biggest))))

Ipv6_size(self, prefix_length) ==
    Checked(SubU8(IPV6_LEN, prefix_length), SubOverflow, LAMBDA exp :
    Checked(Pow2(exp, IPV6_LEN), MulOverflow, LAMBDA biggest :
        Ok(AsUsize(biggest))))

Ipv4_len(self, prefix_length) ==
    Checked(SubU8(IPV4_LEN, prefix_length), SubOverflow, LAMBDA exp :
    Checked(Pow2(exp, IPV4_LEN), MulOverflow, LAMBDA pow :
    Checked(Sub(pow, NatBits(2), IPV4_LEN), SubOverflow, LAMBDA length :
        Ok(AsUsize(length)))))

Ipv6_len(self, prefix_length) ==
    Checked(SubU8(IPV6_LEN, prefix_length), SubOverflow, LAMBDA exp :
    Checked(Pow2(exp, IPV6_LEN), MulOverflow, LAMBDA pow :
    Checked(Sub(pow, NatBits(2), IPV6_LEN), SubOverflow, LAMBDA length :
        Ok(AsUsize(length)))))

\* (scope.addr + (mask.addr & self.addr)).into(), mask being
\* Ipv6Addr::new(0, 0, 0, 0, 0, 0, 0x00FF, 0xFFFF).
Multicast(scope, self) ==
    Checked(Add(Ipv6_new(scope).addr,
                BitAnd(Ipv6_new(<<0, 0, 0, 0, 0, 0, 255, 65535>>).addr, self.addr),
                IPV6_LEN), AddOverflow, LAMBDA r : Ok(U128ToIpv6(r)))

\* Ipv6Addr::new(0xFF02, 0, 0, 0, 0, 0x0001, 0xFF00, 0): the link-local base
\* used where the node-local one belongs.
Ipv6_node_multicast_link_scope(self) ==
    Multicast(<<65282, 0, 0, 0, 0, 1, 65280, 0>>, self)

\* node: Ipv6Addr::new(0xFF01, 0, 0, 0, 0, 0x0001, 0xFF00, 0).
Ipv6_node_multicast(self) ==
    Multicast(<<65281, 0, 0, 0, 0, 1, 65280, 0>>, self)

\* link_multicast with a mask of 25 bits, Ipv6Addr::new(0, 0, 0, 0, 0, 0, 0x01FF,
\* 0xFFFF), whose top bit meets the lowest set bit of the base.
Ipv6_link_multicast_wide_mask(self) ==
    Checked(Add(Ipv6_new(<<65282, 0, 0, 0, 0, 1, 65280, 0>>).addr,
                BitAnd(Ipv6_new(<<0, 0, 0, 0, 0, 0, 511, 65535>>).addr, self.addr),
                IPV6_LEN), AddOverflow, LAMBDA r : Ok(U128ToIpv6(r)))

\* link: Ipv6Addr::new(0xFF02, 0, 0, 0, 0, 0x0001, 0xFF00, 0).
Ipv6_link_multicast(self) ==
    Multicast(<<65282, 0, 0, 0, 0, 1, 65280, 0>>, self)

\* site: Ipv6Addr::new(0xFF05, 0, 0, 0, 0, 0x0001, 0xFF00, 0).
Ipv6_site_multicast(self) ==
    Multicast(<<65285, 0, 0, 0, 0, 1, 65280, 0>>, self)

\* for _ in 0..w { if a & mask != b & mask { break; } count += 1; mask >>= 1; }
\* In iteration n (from 0) mask is 1 << (w - 1 - n); count is the number of
\* iterations before the first one that breaks, w when none does.
PrefixLoop(a, b, w) ==
    With({n \in 0..(w - 1) : \E x \in {a}, y \in {b} :
              BitAnd(x, {w - 1 - n}) # BitAnd(y, {w - 1 - n})},
         LAMBDA breaks :
             IF breaks = {} THEN w ELSE CHOOSE n \in breaks : \A m \in breaks : n <= m)

Ipv4_largest_identical_prefix(self, target) ==
    With(PrefixLoop(self.addr, target.addr, 32), LAMBDA count : Ok(NatBits(count)))

Ipv6_max_identical_prefix(self, target) ==
    With(PrefixLoop(self.addr, target.addr, 128), LAMBDA count :
        Checked(Sub(NatBits(count), NatBits(1), IPV6_LEN), SubOverflow, LAMBDA r : Ok(r)))

----------------------------------------------------------------------------
(* Text: a &str is the sequence of its characters.                         *)

DecDigits == {"0", "1", "2", "3", "4", "5", "6", "7", "8", "9"}
HexDigits == DecDigits \cup {"a", "b", "c", "d", "e", "f"}

DigitVal(c) ==
    CASE c = "0" -> 0 [] c = "1" -> 1 [] c = "2" -> 2 [] c = "3" -> 3
      [] c = "4" -> 4 [] c = "5" -> 5 [] c = "6" -> 6 [] c = "7" -> 7
      [] c = "8" -> 8 [] c = "9" -> 9 [] c = "a" -> 10 [] c = "b" -> 11
      [] c = "c" -> 12 [] c = "d" -> 13 [] c = "e" -> 14 [] c = "f" -> 15

\* str::contains of a one-character pattern.
StrContains(s, c) == \E i \in 1..Len(s) : s[i] = c

\* The k-th smallest member of a set of positions.
Nth(S, k) == CHOOSE i \in S : Cardinality({j \in S : j < i}) = k - 1

\* The fields of s between the separators at the positions seps.
Fields(s, seps) ==
    [k \in 1..(Cardinality(seps) + 1) |->
        SubSeq(s, IF k = 1 THEN 1 ELSE 1 + Nth(seps, k - 1),
                  IF k > Cardinality(seps) THEN Len(s) ELSE Nth(seps, k) - 1)]

\* str::split(c).collect(): the fields between the separators, empty ones kept.
StrSplit(s, c) ==
    CHOOSE f \in {Fields(x, {i \in 1..Len(x) : x[i] = c}) : x \in {s}} : TRUE

\* The digits of s from position i on, read in the given radix, most
\* significant first, onto acc; -1 as soon as the value exceeds max
\* (checked_mul / checked_add fail).
RECURSIVE ReadFrom(_, _, _, _, _)
ReadFrom(s, i, radix, acc, max) ==
    IF i > Len(s) THEN acc
    ELSE With(acc * radix + DigitVal(s[i]), LAMBDA v :
             IF v > max THEN -1 ELSE ReadFrom(s, i + 1, radix, v, max))

ReadNumber(s, radix, max) ==
    CHOOSE v \in {ReadFrom(x, 1, radix, 0, max) : x \in {s}} : TRUE

NoValue == [ok |-> FALSE, val |-> <<>>]
Value(v) == [ok |-> TRUE, val |-> v]

\* str::parse::<u8>: an optional '+', then at least one decimal digit, a
\* value of at most 255.
ParseU8(s) ==
    With(IF s # <<>> /\ Head(s) = "+" THEN Tail(s) ELSE s, LAMBDA digits :
        IF digits = <<>> \/ (\E i \in 1..Len(digits) : digits[i] \notin DecDigits)
        THEN NoValue
        ELSE With(ReadNumber(digits, 10, 255), LAMBDA v :
                 IF v < 0 THEN NoValue ELSE Value(v)))

\* One octet of a dotted quad: one to three decimal digits, no leading zero,
\* at most 255.
IsOctet(f) ==
    /\ Len(f) \in 1..3
    /\ \A i \in 1..Len(f) : f[i] \in DecDigits
    /\ ~(Len(f) > 1 /\ f[1] = "0")
    /\ ReadNumber(f, 10, 255) >= 0

\* Ipv4Addr::from_str: exactly four octets separated by '.'.
ParseIpv4(s) ==
    With(StrSplit(s, "."), LAMBDA f :
        IF Len(f) = 4 /\ \A k \in 1..4 : IsOctet(f[k])
        THEN Value([k \in 1..4 |-> ReadNumber(f[k], 10, 255)])
        ELSE NoValue)

\* One group of an IPv6 address: one to four hexadecimal digits.
IsGroup(f) == Len(f) \in 1..4 /\ \A i \in 1..Len(f) : f[i] \in HexDigits

\* The groups a part of an IPv6 text (before or after "::") denotes: hex
\* groups separated by ':', the last one possibly an embedded IPv4 address
\* (when v4 allows it), which stands for two groups.
ReadGroups(s, v4) ==
    IF s = <<>> THEN Value(<<>>)
    ELSE With(StrSplit(s, ":"), LAMBDA f :
             IF \A k \in 1..Len(f) : IsGroup(f[k])
             THEN Value([k \in 1..Len(f) |-> ReadNumber(f[k], 16, 65535)])
             ELSE With(ParseIpv4(f[Len(f)]), LAMBDA last :
                      IF v4 /\ last.ok /\ \A k \in 1..(Len(f) - 1) : IsGroup(f[k])
                      THEN Value([k \in 1..(Len(f) - 1) |-> ReadNumber(f[k], 16, 65535)]
                                 \o <<last.val[1] * 256 + last.val[2],
                                      last.val[3] * 256 + last.val[4]>>)
                      ELSE NoValue))

\* The address whose groups before "::" are head and after it tail.
Elided(head, tail) ==
    IF head.ok /\ tail.ok /\ Len(head.val) + Len(tail.val) <= 7
    THEN Value(head.val \o [k \in 1..(8 - Len(head.val) - Len(tail.val)) |-> 0]
               \o tail.val)
    ELSE NoValue

\* Ipv6Addr::from_str: eight groups, or fewer around one "::" that stands
\* for at least one group of zeros.
ParseIpv6(s) ==
    With({i \in 1..(Len(s) - 1) : s[i] = ":" /\ s[i + 1] = ":"}, LAMBDA at :
        IF at = {}
        THEN With(ReadGroups(s, TRUE), LAMBDA g :
                 IF g.ok /\ Len(g.val) = 8 THEN g ELSE NoValue)
        ELSE With(Nth(at, 1), LAMBDA i :
             With(ReadGroups(SubSeq(s, 1, i - 1), FALSE), LAMBDA head :
             With(ReadGroups(SubSeq(s, i + 2, Len(s)), TRUE), LAMBDA tail :
                 Elided(head, tail)))))

UnwrapPanic == Panic("called Result::unwrap() on an Err value")

----------------------------------------------------------------------------
(* Operations on text.                                                     *)

Ipv4Pool_from(address) ==
    IF StrContains(address, "/")
    THEN With(StrSplit(address, "/"), LAMBDA address_vec :
             IF Len(address_vec) = 2
             THEN With(ParseIpv4(address_vec[1]), LAMBDA addr :
                  With(ParseU8(address_vec[2]), LAMBDA prefix_length :
                      IF ~addr.ok \/ ~prefix_length.ok THEN UnwrapPanic
                      ELSE Ipv4PoolFields(Ipv4ToU32(addr.val), prefix_length.val)))
             ELSE InvalidInputError)
    ELSE InvalidInputError

Ipv6Pool_from(address) ==
    IF StrContains(address, "/")
    THEN With(StrSplit(address, "/"), LAMBDA address_vec :
             IF Len(address_vec) = 2
             THEN With(ParseIpv6(address_vec[1]), LAMBDA addr :
                  With(ParseU8(address_vec[2]), LAMBDA prefix_length :
                      IF ~addr.ok \/ ~prefix_length.ok THEN UnwrapPanic
                      ELSE Ipv6PoolFields(Ipv6ToU128(addr.val), prefix_length.val)))
             ELSE InvalidInputError)
    ELSE InvalidInputError

Ipv4Pool_contain_from_str(self, address) ==
    With(ParseIpv4(address), LAMBDA addr :
        IF addr.ok THEN Ok(BitAnd(Ipv4ToU32(addr.val), self.mask) = self.prefix)
        ELSE AddrParseError)

Ipv6Pool_contain_from_str(self, address) ==
    With(ParseIpv6(address), LAMBDA addr :
        IF addr.ok THEN Ok(BitAnd(Ipv6ToU128(addr.val), self.mask) = self.prefix)
        ELSE AddrParseError)

Ipv4_subnet_split(subnet_address) ==
    IF StrContains(subnet_address, "/")
    THEN With(StrSplit(subnet_address, "/"), LAMBDA subnet_address_vec :
             IF Len(subnet_address_vec) = 2
             THEN With(ParseIpv4(subnet_address_vec[1]), LAMBDA subnet :
                  With(ParseU8(subnet_address_vec[2]), LAMBDA prefix :
                      IF ~subnet.ok \/ ~prefix.ok THEN UnwrapPanic
                      ELSE Ok([subnet |-> subnet.val, prefix |-> prefix.val])))
             ELSE InvalidInputError)
    ELSE InvalidInputError

Ipv6_subnet_split(subnet_address) ==
    IF StrContains(subnet_address, "/")
    THEN With(StrSplit(subnet_address, "/"), LAMBDA subnet_address_vec :
             IF Len(subnet_address_vec) = 2
             THEN With(ParseIpv6(subnet_address_vec[1]), LAMBDA subnet :
                  With(ParseU8(subnet_address_vec[2]), LAMBDA prefix :
                      IF ~subnet.ok \/ ~prefix.ok THEN UnwrapPanic
                      ELSE Ok([subnet |-> subnet.val, prefix |-> prefix.val])))
             ELSE InvalidInputError)
    ELSE InvalidInputError

Ipv4_get_subnet_mask(prefix_length) ==
    Checked(SubU8(IPV4_LEN, prefix_length), SubOverflow, LAMBDA n :
        Ok(ShlLoop(MaxOf(IPV4_LEN), n, IPV4_LEN)))

Ipv6_get_subnet_mask(prefix_length) ==
    Checked(SubU8(IPV6_LEN, prefix_length), SubOverflow, LAMBDA n :
        Ok(ShlLoop(MaxOf(IPV6_LEN), n, IPV6_LEN)))

Ipv4_within_from_str(self, subnet_address) ==
    With(Ipv4_subnet_split(subnet_address), LAMBDA split :
        IF split.tag # "Ok" THEN split
        ELSE With(Ipv4_get_subnet_mask(split.val.prefix), LAMBDA new_subnet_mask :
                 IF new_subnet_mask.tag # "Ok" THEN new_subnet_mask
                 ELSE Ok(BitAnd(Ipv4ToU32(split.val.subnet), new_subnet_mask.val)
                         = BitAnd(self.addr, new_subnet_mask.val))))

Ipv6_within_from_str(self, subnet_address) ==
    With(Ipv6_subnet_split(subnet_address), LAMBDA split :
        IF split.tag # "Ok" THEN split
        ELSE With(Ipv6_get_subnet_mask(split.val.prefix), LAMBDA new_subnet_mask :
                 IF new_subnet_mask.tag # "Ok" THEN new_subnet_mask
                 ELSE Ok(BitAnd(Ipv6ToU128(split.val.subnet), new_subnet_mask.val)
                         = BitAnd(self.addr, new_subnet_mask.val))))

----------------------------------------------------------------------------
(* Display: numbers, addresses, pools and ranges as text.                  *)

DecChar(d) ==
    CASE d = 0 -> "0" [] d = 1 -> "1" [] d = 2 -> "2" [] d = 3 -> "3"
      [] d = 4 -> "4" [] d = 5 -> "5" [] d = 6 -> "6" [] d = 7 -> "7"
      [] d = 8 -> "8" [] d = 9 -> "9"

\* A number's decimal digits (Display for u8 and the like).
RECURSIVE DecText(_)
DecText(n) == IF n < 10 THEN <<DecChar(n)>> ELSE DecText(n \div 10) \o <<DecChar(n % 10)>>

\* Display for Ipv4Addr: the dotted quad.
Ipv4Text(ip) ==
    DecText(ip[1]) \o <<".">> \o DecText(ip[2]) \o <<".">> \o DecText(ip[3])
    \o <<".">> \o DecText(ip[4])

\* A segment in lower-case hexadecimal without leading zeros ({:x}).
RECURSIVE HexText(_)
HexText(n) ==
    IF n < 16 THEN <<CHOOSE c \in HexDigits : DigitVal(c) = n>>
    ELSE HexText(n \div 16) \o HexText(n % 16)

\* The segments from..to of ip in hexadecimal, separated by ':'.
RECURSIVE HexGroups(_, _, _)
HexGroups(ip, from, to) ==
    IF from > to THEN <<>>
    ELSE IF from = to THEN HexText(ip[from])
    ELSE HexText(ip[from]) \o <<":">> \o HexGroups(ip, from + 1, to)

\* The first of the longest runs of zero segments of ip: [start, len], run[s]
\* being the length of the run that starts at segment s.
LongestZeroRun(ip) ==
    With([s \in 1..8 |-> CHOOSE n \in 0..(9 - s) :
                             /\ \A k \in s..(s + n - 1) : ip[k] = 0
                             /\ s + n = 9 \/ ip[s + n] # 0],
         LAMBDA run :
    With(CHOOSE s \in 1..8 : \A t \in 1..8 : run[s] > run[t] \/ (run[s] = run[t] /\ s <= t),
         LAMBDA s : [start |-> s, len |-> run[s]]))

\* Display for Ipv6Addr: an IPv4-mapped address as ::ffff:a.b.c.d; otherwise
\* the segments in hexadecimal, the first longest run of two or more zero
\* segments written as "::".
Ipv6Text(ip) ==
    IF (\A k \in 1..5 : ip[k] = 0) /\ ip[6] = 65535
    THEN <<":", ":", "f", "f", "f", "f", ":">>
         \o Ipv4Text(<<ip[7] \div 256, ip[7] % 256, ip[8] \div 256, ip[8] % 256>>)
    ELSE With(LongestZeroRun(ip), LAMBDA zeroes :
             IF zeroes.len > 1
             THEN HexGroups(ip, 1, zeroes.start - 1) \o <<":", ":">>
                  \o HexGroups(ip, zeroes.start + zeroes.len, 8)
             ELSE HexGroups(ip, 1, 8))

\* while mask != 0 { mask <<= 1; prefix_length += 1; }: the loop ends when the
\* lowest set bit of mask has left the width, after w - (that bit) shifts.
MaskLoop(mask, w) ==
    IF mask = {} THEN 0 ELSE w - (CHOOSE i \in mask : \A j \in mask : i <= j)

\* Ipv4Pool's Display writing the number of host bits after the '/'.
Ipv4Pool_fmt_host_bits(self) ==
    Ipv4Text(U32ToIpv4(self.prefix)) \o <<"/">>
        \o DecText(IPV4_LEN - MaskLoop(self.mask, IPV4_LEN))

\* Display for Ipv4Pool / Ipv6Pool: "{prefix}/{prefix_length}".
Ipv4Pool_fmt(self) ==
    Ipv4Text(U32ToIpv4(self.prefix)) \o <<"/">> \o DecText(MaskLoop(self.mask, IPV4_LEN))

Ipv6Pool_fmt(self) ==
    Ipv6Text(U128ToIpv6(self.prefix)) \o <<"/">> \o DecText(MaskLoop(self.mask, IPV6_LEN))

----------------------------------------------------------------------------
(* The inputs the calls are made with.                                     *)

\* 0.0.0.0, 10.8.0.22, 192.168.1.1, 192.168.1.136, 192.168.1.192,
\* 255.255.255.254, 255.255.255.255
Ipv4Addrs ==
    { <<0, 0, 0, 0>>, <<10, 8, 0, 22>>, <<192, 168, 1, 1>>, <<192, 168, 1, 136>>,
      <<192, 168, 1, 192>>, <<255, 255, 255, 254>>, <<255, 255, 255, 255>> }

\* ::, ::ffff:192.10.2.255, 8000::, fe80::215:5dff:fe20:b393, ffff:...:fffe, ffff:...:ffff
Ipv6Addrs ==
    { <<0, 0, 0, 0, 0, 0, 0, 0>>,
      <<0, 0, 0, 0, 0, 65535, 49162, 767>>,
      <<32768, 0, 0, 0, 0, 0, 0, 0>>,
      <<65152, 0, 0, 0, 533, 24063, 65056, 45971>>,
      <<65535, 65535, 65535, 65535, 65535, 65535, 65535, 65534>>,
      <<65535, 65535, 65535, 65535, 65535, 65535, 65535, 65535>> }

\* The addresses pools are built from.
Ipv4PoolAddrs == { <<10, 8, 0, 22>>, <<192, 168, 1, 1>>, <<255, 255, 255, 255>> }
Ipv6PoolAddrs ==
    { <<0, 0, 0, 0, 0, 65535, 49162, 767>>,
      <<65535, 65535, 65535, 65535, 65535, 65535, 65535, 65535>> }

\* The addresses a second pool is built from: 10.8.0.23, 192.168.1.2,
\* ::ffff:192.10.2.254, ffff:...:fffe.
Ipv4OtherAddrs == { <<10, 8, 0, 23>>, <<192, 168, 1, 2>> }
Ipv6OtherAddrs ==
    { <<0, 0, 0, 0, 0, 65535, 49162, 766>>,
      <<65535, 65535, 65535, 65535, 65535, 65535, 65535, 65534>> }

\* The addresses pools are asked about.
Ipv4Probes ==
    { <<0, 0, 0, 0>>, <<10, 8, 0, 20>>, <<192, 168, 1, 0>>, <<192, 168, 2, 1>>,
      <<255, 255, 255, 252>> }
Ipv6Probes ==
    { <<0, 0, 0, 0, 0, 0, 0, 0>>,
      <<0, 0, 0, 0, 0, 65535, 49162, 512>>,
      <<0, 0, 0, 0, 0, 65535, 49162, 1024>>,
      <<65535, 65535, 65535, 65535, 65535, 65535, 65535, 65532>> }

\* Values of the u8 parameter prefix_length, in and out of range.
Ipv4PrefixLengths == {0, 24, 30, 31, 32, 33, 255}
Ipv6PrefixLengths == {0, 64, 120, 126, 127, 128, 129, 255}

Slash == <<"/">>

\* CIDR texts: well formed, and malformed in each way the grammar names.
Ipv4CidrTexts ==
    { Ipv4Text(<<192, 168, 1, 0>>) \o Slash \o DecText(24),
      Ipv4Text(<<192, 168, 1, 1>>) \o Slash \o DecText(30),
      Ipv4Text(<<10, 8, 0, 22>>) \o Slash \o DecText(32),
      Ipv4Text(<<0, 0, 0, 0>>) \o Slash \o DecText(0),
      Ipv4Text(<<192, 168, 1, 0>>) \o Slash \o <<"+">> \o DecText(24),
      Ipv4Text(<<192, 168, 1, 0>>) \o Slash \o <<"0">> \o DecText(24),
      Ipv4Text(<<192, 168, 1, 0>>) \o Slash \o DecText(33),
      Ipv4Text(<<192, 168, 1, 0>>) \o Slash \o DecText(256),
      Ipv4Text(<<192, 168, 1, 0>>),
      Ipv4Text(<<192, 168, 1, 0>>) \o Slash \o DecText(24) \o Slash \o DecText(1),
      Ipv4Text(<<192, 168, 1, 0>>) \o Slash,
      Slash \o DecText(24),
      Ipv4Text(<<192, 168, 1, 0>>) \o Slash \o <<"x">>,
      <<"1", ".", "2", ".", "3">> \o Slash \o DecText(24),
      DecText(256) \o <<".", "1", ".", "1", ".", "1">> \o Slash \o DecText(24),
      <<>> }

Ipv6CidrTexts ==
    { <<":", ":", "1">> \o Slash \o DecText(128),
      <<":", ":", "f", "f", "f", "f", ":">> \o Ipv4Text(<<192, 10, 2, 0>>) \o Slash \o DecText(120),
      <<"f", "e", "8", "0", ":", ":", "1">> \o Slash \o DecText(64),
      <<"1", ":", "2", ":", "3", ":", "4", ":", "5", ":", "6", ":", "7", ":", "8">>
          \o Slash \o DecText(126),
      <<":", ":">> \o Slash \o DecText(0),
      <<":", ":", "1">> \o Slash \o DecText(129),
      <<":", ":", "1">>,
      <<":", ":", "1">> \o Slash \o DecText(64) \o Slash \o DecText(1),
      <<":", ":", "1">> \o Slash,
      <<":", ":", "1">> \o Slash \o <<"x">>,
      <<"1", ":", ":", "2", ":", ":", "3">> \o Slash \o DecText(64),
      <<"1", ":", "2">> \o Slash \o DecText(64) }

\* Address texts for contain_from_str: 192.168.1.2, 10.8.0.20, 1.2.3, and
\* ::ffff:192.10.2.1, ffff::1, 1:2.
Ipv4AddrTexts ==
    { Ipv4Text(<<192, 168, 1, 2>>), Ipv4Text(<<10, 8, 0, 20>>), <<"1", ".", "2", ".", "3">> }

Ipv6AddrTexts ==
    { <<":", ":", "f", "f", "f", "f", ":">> \o Ipv4Text(<<192, 10, 2, 1>>),
      <<"f", "f", "f", "f", ":", ":", "1">>, <<"1", ":", "2">> }

SeqRange(q) == {q[i] : i \in 1..Len(q)}

----------------------------------------------------------------------------
(* The calls.                                                              *)

Call(op, args, r) == [op |-> op, args |-> args, tag |-> r.tag, val |-> r.val]

NoCall == [op |-> "none", args |-> <<>>, tag |-> "None", val |-> <<>>]
NotMade == [op |-> "none"]
NoOther ==
    [op |-> "none", address |-> <<>>, tag |-> "None", inst |-> NoPool, out |-> <<>>,
     calls |-> 0]

Init ==
    /\ overflow_checks \in BOOLEAN
    /\ pool = NoPool
    /\ cross = NoCross
    /\ made = NotMade
    /\ out = <<>>
    /\ calls = 0
    /\ ret = NoCall
    /\ other = NoOther

\* No call has been made yet.
Idle == ret.op = "none"
\* The last call built the instance or was a next() that did not panic.  A
\* query is the last call of a run: it changes no field, so the calls after
\* it would repeat the calls before it.
Iterating ==
    /\ ret.tag \in {"Ok", "Some", "None"}
    /\ ret.op \in {made.op, "Ipv4Pool::next", "Ipv6Pool::next",
                   "CrossIpv4Pool::next", "CrossIpv6Pool::next"}
IsPool == Iterating /\ pool.kind # "none"
IsCross == Iterating /\ cross.kind # "none"

\* A constructor call that returned r: the instance exists when r is Ok.
BuildPool(op, args, r, address, prefix_length) ==
    /\ ret' = Call(op, args, r)
    /\ pool' = IF r.tag = "Ok" THEN r.val ELSE pool
    /\ made' = IF r.tag = "Ok"
               THEN [op |-> op, args |-> args, address |-> address,
                     prefix_length |-> prefix_length]
               ELSE made
    /\ UNCHANGED <<overflow_checks, cross, out, calls, other>>

BuildCross(op, args, r) ==
    /\ ret' = Call(op, args, r)
    /\ cross' = IF r.tag = "Ok" THEN r.val ELSE cross
    /\ made' = IF r.tag = "Ok" THEN [op |-> op, start |-> args.start, end |-> args.end]
               ELSE made
    /\ UNCHANGED <<overflow_checks, pool, out, calls, other>>

NewIpv4Pool(address, prefix_length) ==
    /\ Idle
    /\ \E r \in {Ipv4Pool_new(address, prefix_length)} :
           BuildPool("Ipv4Pool::new", [address |-> address, prefix_length |-> prefix_length],
                     r, address, prefix_length)

NewIpv6Pool(address, prefix_length) ==
    /\ Idle
    /\ \E r \in {Ipv6Pool_new(address, prefix_length)} :
           BuildPool("Ipv6Pool::new", [address |-> address, prefix_length |-> prefix_length],
                     r, address, prefix_length)

\* The address and the prefix length a CIDR text names, for the history.
Ipv4Named(text) ==
    With(StrSplit(text, "/"), LAMBDA f :
        [address |-> ParseIpv4(f[1]).val, prefix_length |-> ParseU8(f[2]).val])
Ipv6Named(text) ==
    With(StrSplit(text, "/"), LAMBDA f :
        [address |-> ParseIpv6(f[1]).val, prefix_length |-> ParseU8(f[2]).val])

FromIpv4Pool(text) ==
    /\ Idle
    /\ \E r \in {Ipv4Pool_from(text)} :
       \E n \in {IF r.tag = "Ok" THEN Ipv4Named(text) ELSE [address |-> <<>>, prefix_length |-> 0]} :
           BuildPool("Ipv4Pool::from", [text |-> text], r, n.address, n.prefix_length)

FromIpv6Pool(text) ==
    /\ Idle
    /\ \E r \in {Ipv6Pool_from(text)} :
       \E n \in {IF r.tag = "Ok" THEN Ipv6Named(text) ELSE [address |-> <<>>, prefix_length |-> 0]} :
           BuildPool("Ipv6Pool::from", [text |-> text], r, n.address, n.prefix_length)

IterIpv4(address, prefix_length) ==
    /\ Idle
    /\ \E r \in {Ipv4_iter(Ipv4_new(address), prefix_length)} :
           BuildPool("Ipv4::iter", [address |-> address, prefix_length |-> prefix_length],
                     r, address, prefix_length)

IterIpv6(address, prefix_length) ==
    /\ Idle
    /\ \E r \in {Ipv6_iter(Ipv6_new(address), prefix_length)} :
           BuildPool("Ipv6::iter", [address |-> address, prefix_length |-> prefix_length],
                     r, address, prefix_length)

NewCrossIpv4Pool(start, end) ==
    /\ Idle
    /\ \E r \in {CrossIpv4Pool_new(start, end)} :
           BuildCross("CrossIpv4Pool::new", [start |-> start, end |-> end], r)

NewCrossIpv6Pool(start, end) ==
    /\ Idle
    /\ \E r \in {CrossIpv6Pool_new(start, end)} :
           BuildCross("CrossIpv6Pool::new", [start |-> start, end |-> end], r)

\* One call of next() that returned r.res and left the instance as r.self.
Yield(op, r) ==
    /\ calls + other.calls < MaxCalls
    /\ ret' = Call(op, <<>>, r.res)
    /\ out' = IF r.res.tag = "Some" THEN Append(out, r.res.val) ELSE out
    /\ calls' = calls + 1
    /\ UNCHANGED <<overflow_checks, made, other>>

NextIpv4Pool ==
    /\ IsPool /\ pool.kind = "Ipv4Pool"
    /\ \E r \in {Ipv4Pool_next(pool)} : Yield("Ipv4Pool::next", r) /\ pool' = r.self
    /\ UNCHANGED cross

NextIpv6Pool ==
    /\ IsPool /\ pool.kind = "Ipv6Pool"
    /\ \E r \in {Ipv6Pool_next(pool)} : Yield("Ipv6Pool::next", r) /\ pool' = r.self
    /\ UNCHANGED cross

NextCrossIpv4Pool ==
    /\ IsCross /\ cross.kind = "CrossIpv4Pool"
    /\ \E r \in {CrossIpv4Pool_next(cross)} : Yield("CrossIpv4Pool::next", r) /\ cross' = r.self
    /\ UNCHANGED pool

NextCrossIpv6Pool ==
    /\ IsCross /\ cross.kind = "CrossIpv6Pool"
    /\ \E r \in {CrossIpv6Pool_next(cross)} : Yield("CrossIpv6Pool::next", r) /\ cross' = r.self
    /\ UNCHANGED pool

\* A second pool built at the first one's prefix length, before the first
\* next(): the call that returned r is recorded in other, not in ret.
BuildOther(op, address, r) ==
    /\ other' = [op |-> op, address |-> address, tag |-> r.tag,
                 inst |-> IF r.tag = "Ok" THEN r.val ELSE NoPool, out |-> <<>>,
                 calls |-> 0]
    /\ UNCHANGED <<overflow_checks, pool, cross, made, out, calls, ret>>

OtherIpv4Pool(op, address) ==
    /\ IsPool /\ ret.op = made.op /\ other = NoOther
    /\ pool.kind = "Ipv4Pool"
    /\ \E p \in {made.prefix_length} :
       \E r \in { CASE op = "Ipv4Pool::new" -> Ipv4Pool_new(address, p)
                   [] op = "Ipv4Pool::from" ->
                          Ipv4Pool_from(Ipv4Text(address) \o Slash \o DecText(p))
                   [] op = "Ipv4::iter" -> Ipv4_iter(Ipv4_new(address), p) } :
           BuildOther(op, address, r)

OtherIpv6Pool(op, address) ==
    /\ IsPool /\ ret.op = made.op /\ other = NoOther
    /\ pool.kind = "Ipv6Pool"
    /\ \E p \in {made.prefix_length} :
       \E r \in { CASE op = "Ipv6Pool::new" -> Ipv6Pool_new(address, p)
                   [] op = "Ipv6Pool::from" ->
                          Ipv6Pool_from(Ipv6Text(address) \o Slash \o DecText(p))
                   [] op = "Ipv6::iter" -> Ipv6_iter(Ipv6_new(address), p) } :
           BuildOther(op, address, r)

\* Ipv4Pool and Ipv6Pool are Copy: a copy of the pool as it is now.
CopyPool ==
    /\ IsPool
    /\ other = NoOther
    /\ other' = [op |-> "copy", address |-> made.address, tag |-> "Ok", inst |-> pool,
                 out |-> <<>>, calls |-> 0]
    /\ UNCHANGED <<overflow_checks, pool, cross, made, out, calls, ret>>

\* next() on the second pool.
NextOther ==
    /\ other.inst.kind # "none"
    /\ other.tag \in {"Ok", "Some", "None"}
    /\ calls + other.calls < MaxCalls
    /\ \E r \in { IF other.inst.kind = "Ipv4Pool" THEN Ipv4Pool_next(other.inst)
                   ELSE Ipv6Pool_next(other.inst) } :
           other' = [other EXCEPT !.inst = r.self, !.tag = r.res.tag,
                                  !.out = IF r.res.tag = "Some" THEN Append(@, r.res.val)
                                          ELSE @,
                                  !.calls = @ + 1]
    /\ UNCHANGED <<overflow_checks, pool, cross, made, out, calls, ret>>

\* A call that only reads: it changes nothing but the record of the call.  It
\* is the last call of a run, made while there is one instance.
Query(op, args, r) ==
    /\ ret' = Call(op, args, r)
    /\ UNCHANGED <<overflow_checks, pool, cross, made, out, calls, other>>

ContainIpv4Pool(address) ==
    /\ IsPool /\ other = NoOther /\ pool.kind = "Ipv4Pool"
    /\ \E r \in {Ok(Ipv4Pool_contain(pool, address))} :
           Query("Ipv4Pool::contain", [address |-> address], r)

ContainIpv6Pool(address) ==
    /\ IsPool /\ other = NoOther /\ pool.kind = "Ipv6Pool"
    /\ \E r \in {Ok(Ipv6Pool_contain(pool, address))} :
           Query("Ipv6Pool::contain", [address |-> address], r)

ContainFromStrIpv4Pool(text) ==
    /\ IsPool /\ other = NoOther /\ pool.kind = "Ipv4Pool"
    /\ \E r \in {Ipv4Pool_contain_from_str(pool, text)} :
           Query("Ipv4Pool::contain_from_str", [text |-> text], r)

ContainFromStrIpv6Pool(text) ==
    /\ IsPool /\ other = NoOther /\ pool.kind = "Ipv6Pool"
    /\ \E r \in {Ipv6Pool_contain_from_str(pool, text)} :
           Query("Ipv6Pool::contain_from_str", [text |-> text], r)

NetworkIpv4Pool ==
    /\ IsPool /\ other = NoOther /\ pool.kind = "Ipv4Pool"
    /\ \E r \in {Ok(Ipv4Pool_network(pool))} : Query("Ipv4Pool::network", <<>>, r)

NetworkIpv6Pool ==
    /\ IsPool /\ other = NoOther /\ pool.kind = "Ipv6Pool"
    /\ \E r \in {Ok(Ipv6Pool_network(pool))} : Query("Ipv6Pool::network", <<>>, r)

BroadcastIpv4Pool ==
    /\ IsPool /\ other = NoOther /\ pool.kind = "Ipv4Pool"
    /\ \E r \in {Ipv4Pool_broadcast(pool)} : Query("Ipv4Pool::broadcast", <<>>, r)

SizeIpv4Pool ==
    /\ IsPool /\ other = NoOther /\ pool.kind = "Ipv4Pool"
    /\ \E r \in {Ipv4Pool_size(pool)} : Query("Ipv4Pool::size", <<>>, r)

SizeIpv6Pool ==
    /\ IsPool /\ other = NoOther /\ pool.kind = "Ipv6Pool"
    /\ \E r \in {Ipv6Pool_size(pool)} : Query("Ipv6Pool::size", <<>>, r)

FmtIpv4Pool ==
    /\ IsPool /\ other = NoOther /\ pool.kind = "Ipv4Pool"
    /\ \E r \in {Ok(Ipv4Pool_fmt(pool))} : Query("Ipv4Pool::fmt", <<>>, r)

FmtIpv6Pool ==
    /\ IsPool /\ other = NoOther /\ pool.kind = "Ipv6Pool"
    /\ \E r \in {Ok(Ipv6Pool_fmt(pool))} : Query("Ipv6Pool::fmt", <<>>, r)

LenIpv4Pool ==
    /\ IsPool /\ other = NoOther /\ pool.kind = "Ipv4Pool"
    /\ \E r \in {Ipv4Pool_len(pool)} : Query("Ipv4Pool::len", <<>>, r)

LenIpv6Pool ==
    /\ IsPool /\ other = NoOther /\ pool.kind = "Ipv6Pool"
    /\ \E r \in {Ipv6Pool_len(pool)} : Query("Ipv6Pool::len", <<>>, r)

NetworkIpv4(address, prefix_length) ==
    /\ Idle
    /\ \E r \in {Ipv4_network(Ipv4_new(address), prefix_length)} :
           Query("Ipv4::network", [address |-> address, prefix_length |-> prefix_length], r)

NetworkIpv6(address, prefix_length) ==
    /\ Idle
    /\ \E self \in {Ipv6_new(address)} : \E r \in {Ipv6_network(self, prefix_length)} :
           Query("Ipv6::network", [address |-> address, prefix_length |-> prefix_length], r)

BroadcastIpv4(address, prefix_length) ==
    /\ Idle
    /\ \E r \in {Ipv4_broadcast(Ipv4_new(address), prefix_length)} :
           Query("Ipv4::broadcast", [address |-> address, prefix_length |-> prefix_length], r)

SizeIpv4(address, prefix_length) ==
    /\ Idle
    /\ \E r \in {Ipv4_size(Ipv4_new(address), prefix_length)} :
           Query("Ipv4::size", [address |-> address, prefix_length |-> prefix_length], r)

SizeIpv6(address, prefix_length) ==
    /\ Idle
    /\ \E r \in {Ipv6_size(Ipv6_new(address), prefix_length)} :
           Query("Ipv6::size", [address |-> address, prefix_length |-> prefix_length], r)

LenIpv4(address, prefix_length) ==
    /\ Idle
    /\ \E r \in {Ipv4_len(Ipv4_new(address), prefix_length)} :
           Query("Ipv4::len", [address |-> address, prefix_length |-> prefix_length], r)

LenIpv6(address, prefix_length) ==
    /\ Idle
    /\ \E r \in {Ipv6_len(Ipv6_new(address), prefix_length)} :
           Query("Ipv6::len", [address |-> address, prefix_length |-> prefix_length], r)

NodeMulticastIpv6(address) ==
    /\ Idle
    /\ \E r \in {Ipv6_node_multicast(Ipv6_new(address))} :
           Query("Ipv6::node_multicast", [address |-> address], r)

LinkMulticastIpv6(address) ==
    /\ Idle
    /\ \E r \in {Ipv6_link_multicast(Ipv6_new(address))} :
           Query("Ipv6::link_multicast", [address |-> address], r)

SiteMulticastIpv6(address) ==
    /\ Idle
    /\ \E r \in {Ipv6_site_multicast(Ipv6_new(address))} :
           Query("Ipv6::site_multicast", [address |-> address], r)

WithinIpv4(address) ==
    /\ IsPool /\ other = NoOther /\ pool.kind = "Ipv4Pool"
    /\ \E self \in {Ipv4_new(address)} : \E r \in {Ok(Ipv4_within(self, pool))} :
           Query("Ipv4::within", [address |-> address], r)

WithinIpv6(address) ==
    /\ IsPool /\ other = NoOther /\ pool.kind = "Ipv6Pool"
    /\ \E self \in {Ipv6_new(address)} : \E r \in {Ok(Ipv6_within(self, pool))} :
           Query("Ipv6::within", [address |-> address], r)

WithinFromStrIpv4(address, text) ==
    /\ Idle
    /\ \E self \in {Ipv4_new(address)} : \E r \in {Ipv4_within_from_str(self, text)} :
           Query("Ipv4::within_from_str", [address |-> address, text |-> text], r)

WithinFromStrIpv6(address, text) ==
    /\ Idle
    /\ \E self \in {Ipv6_new(address)} : \E r \in {Ipv6_within_from_str(self, text)} :
           Query("Ipv6::within_from_str", [address |-> address, text |-> text], r)

LargestIdenticalPrefixIpv4(address, target) ==
    /\ Idle
    /\ \E r \in {Ipv4_largest_identical_prefix(Ipv4_new(address), Ipv4_new(target))} :
           Query("Ipv4::largest_identical_prefix", [address |-> address, target |-> target], r)

MaxIdenticalPrefixIpv6(address, target) ==
    /\ Idle
    /\ \E r \in {Ipv6_max_identical_prefix(Ipv6_new(address), Ipv6_new(target))} :
           Query("Ipv6::max_identical_prefix", [address |-> address, target |-> target], r)

Next ==
    \/ \E a \in Ipv4PoolAddrs, p \in Ipv4PrefixLengths : NewIpv4Pool(a, p)
    \/ \E a \in Ipv6PoolAddrs, p \in Ipv6PrefixLengths : NewIpv6Pool(a, p)
    \/ \E t \in Ipv4CidrTexts : FromIpv4Pool(t)
    \/ \E t \in Ipv6CidrTexts : FromIpv6Pool(t)
    \/ \E a \in Ipv4PoolAddrs, p \in Ipv4PrefixLengths : IterIpv4(a, p)
    \/ \E a \in Ipv6PoolAddrs, p \in Ipv6PrefixLengths : IterIpv6(a, p)
    \/ \E a, b \in Ipv4Addrs : NewCrossIpv4Pool(a, b)
    \/ \E a, b \in Ipv6Addrs : NewCrossIpv6Pool(a, b)
    \/ \E op \in {"Ipv4Pool::new", "Ipv4Pool::from", "Ipv4::iter"}, a \in Ipv4OtherAddrs :
           OtherIpv4Pool(op, a)
    \/ \E op \in {"Ipv6Pool::new", "Ipv6Pool::from", "Ipv6::iter"}, a \in Ipv6OtherAddrs :
           OtherIpv6Pool(op, a)
    \/ CopyPool
    \/ NextOther
    \/ NextIpv4Pool
    \/ NextIpv6Pool
    \/ NextCrossIpv4Pool
    \/ NextCrossIpv6Pool
    \/ \E a \in Ipv4Probes \cup SeqRange(out) : ContainIpv4Pool(a)
    \/ \E a \in Ipv6Probes \cup SeqRange(out) : ContainIpv6Pool(a)
    \/ \E t \in Ipv4AddrTexts : ContainFromStrIpv4Pool(t)
    \/ \E t \in Ipv6AddrTexts : ContainFromStrIpv6Pool(t)
    \/ NetworkIpv4Pool
    \/ NetworkIpv6Pool
    \/ BroadcastIpv4Pool
    \/ SizeIpv4Pool
    \/ SizeIpv6Pool
    \/ FmtIpv4Pool
    \/ FmtIpv6Pool
    \/ LenIpv4Pool
    \/ LenIpv6Pool
    \/ \E a \in Ipv4Addrs, p \in Ipv4PrefixLengths : NetworkIpv4(a, p)
    \/ \E a \in Ipv6Addrs, p \in Ipv6PrefixLengths : NetworkIpv6(a, p)
    \/ \E a \in Ipv4Addrs, p \in Ipv4PrefixLengths : BroadcastIpv4(a, p)
    \/ \E a \in Ipv4Addrs, p \in Ipv4PrefixLengths : SizeIpv4(a, p)
    \/ \E a \in Ipv6Addrs, p \in Ipv6PrefixLengths : SizeIpv6(a, p)
    \/ \E a \in Ipv4Addrs, p \in Ipv4PrefixLengths : LenIpv4(a, p)
    \/ \E a \in Ipv6Addrs, p \in Ipv6PrefixLengths : LenIpv6(a, p)
    \/ \E a \in Ipv6Addrs : NodeMulticastIpv6(a)
    \/ \E a \in Ipv6Addrs : LinkMulticastIpv6(a)
    \/ \E a \in Ipv6Addrs : SiteMulticastIpv6(a)
    \/ \E a \in Ipv4Probes \cup SeqRange(out) : WithinIpv4(a)
    \/ \E a \in Ipv6Probes \cup SeqRange(out) : WithinIpv6(a)
    \/ \E a \in Ipv4Addrs, t \in Ipv4CidrTexts : WithinFromStrIpv4(a, t)
    \/ \E a \in Ipv6Addrs, t \in Ipv6CidrTexts : WithinFromStrIpv6(a, t)
    \/ \E a, b \in Ipv4Addrs : LargestIdenticalPrefixIpv4(a, b)
    \/ \E a, b \in Ipv6Addrs : MaxIdenticalPrefixIpv6(a, b)

Spec == Init /\ [][Next]_vars

----------------------------------------------------------------------------
(* What the specification says, in terms independent of the code above.    *)

NextOps == {"Ipv4Pool::next", "Ipv6Pool::next", "CrossIpv4Pool::next", "CrossIpv6Pool::next"}

\* The width of an address's family and the address as an unsigned integer.
WidthOf(ip) == IF Len(ip) = 4 THEN IPV4_LEN ELSE IPV6_LEN
PackedOf(ip) == IF Len(ip) = 4 THEN Ipv4ToU32(ip) ELSE Ipv6ToU128(ip)

\* The mask of a prefix length p at width w: the top p bits.
TopBits(p, w) == (w - p)..(w - 1)

\* The first and the last address of the block of ip at prefix length p.
BlockFirst(ip, p) == PackedOf(ip) \cap TopBits(p, WidthOf(ip))
BlockLast(ip, p) == BlockFirst(ip, p) \cup (0..(WidthOf(ip) - p - 1))

\* a < b on addresses: the first differing octet or segment decides.
SeqLess(a, b) == \E k \in 1..Len(a) : a[k] < b[k] /\ \A j \in 1..(k - 1) : a[j] = b[j]

\* The number of leading bits on which a and b agree.
LeadingAgree(a, b, w) ==
    CHOOSE n \in 0..w :
        /\ \A i \in (w - n)..(w - 1) : (i \in a) <=> (i \in b)
        /\ n < w => ((w - n - 1 \in a) # (w - n - 1 \in b))

PoolBuilt == pool.kind # "none"
PoolWidth == IF pool.kind = "Ipv4Pool" THEN IPV4_LEN ELSE IPV6_LEN
CrossBuilt == cross.kind # "none"
CrossWidth == IF cross.kind = "CrossIpv4Pool" THEN IPV4_LEN ELSE IPV6_LEN

\* The pool was built at a prefix length of its family's range.
PoolInRange == PoolBuilt /\ made.prefix_length <= PoolWidth

\* What network() and broadcast() return for the pool, as unsigned integers
\* (Ipv6Pool has no broadcast(): the last address is prefix + !mask).
PoolNetwork ==
    IF pool.kind = "Ipv4Pool" THEN Ipv4ToU32(Ipv4Pool_network(pool))
    ELSE Ipv6ToU128(Ipv6Pool_network(pool))
PoolBroadcast ==
    IF pool.kind = "Ipv4Pool" THEN Ipv4ToU32(Ipv4Pool_broadcast(pool).val)
    ELSE pool.prefix \cup BitNot(pool.mask, IPV6_LEN)

\* A CIDR text of the accepted shape: one '/', an address of the family, a
\* prefix length within the family's width.
WellFormedCidr(text, v6) ==
    LET f == StrSplit(text, "/")
    IN  /\ Len(f) = 2
        /\ IF v6 THEN ParseIpv6(f[1]).ok ELSE ParseIpv4(f[1]).ok
        /\ ParseU8(f[2]).ok
        /\ ParseU8(f[2]).val <= (IF v6 THEN IPV6_LEN ELSE IPV4_LEN)

----------------------------------------------------------------------------
(* The claims.                                                             *)

\* C1: iterating a fresh pool built at a prefix length p in [0, WIDTH] yields
\* exactly 2^(WIDTH - p) addresses, increasing by one from network() (the
\* address & mask) up to the last address of the block (network + ~mask): the
\* i-th address yielded is network + (i - 1), and when next() returns None
\* 2^(WIDTH - p) addresses have been yielded, the last of them the block's last.
C1_BlockSizeLaw ==
    PoolInRange =>
        /\ \A i \in 1..Len(out) :
               PackedOf(out[i])
                   = Add(BlockFirst(made.address, made.prefix_length), NatBits(i - 1),
                         PoolWidth).val
        /\ (ret.op \in NextOps /\ ret.tag = "None") =>
               /\ NatBits(Len(out)) = {PoolWidth - made.prefix_length}
               /\ PackedOf(out[Len(out)]) = BlockLast(made.address, made.prefix_length)

\* C2: for every prefix length p in [0, WIDTH] construction succeeds with
\* stop = 2^(WIDTH - p), and size() of the pool and Ipv6::size(p) return
\* 2^(WIDTH - p), with no overflow, wraparound or truncation.
C2_LimitAndSize ==
    /\ (ret.op = "Ipv4Pool::new" /\ ret.args.prefix_length <= IPV4_LEN) =>
           ret.tag = "Ok" /\ ret.val.stop = {IPV4_LEN - ret.args.prefix_length}
    /\ (ret.op = "Ipv6Pool::new" /\ ret.args.prefix_length <= IPV6_LEN) =>
           ret.tag = "Ok" /\ ret.val.stop = {IPV6_LEN - ret.args.prefix_length}
    /\ (ret.op \in {"Ipv4Pool::size", "Ipv6Pool::size"} /\ PoolInRange) =>
           ret.tag = "Ok" /\ ret.val = {PoolWidth - made.prefix_length}
    /\ (ret.op = "Ipv6::size" /\ ret.args.prefix_length <= IPV6_LEN) =>
           ret.tag = "Ok" /\ ret.val = {IPV6_LEN - ret.args.prefix_length}

\* C3: Ipv4Pool::new and Ipv6Pool::new with a prefix length above the width
\* (32, 128) return the invalid-input error for every address: no pool is
\* built and nothing panics.
C3_PrefixLengthRejected ==
    /\ (ret.op = "Ipv4Pool::new" /\ ret.args.prefix_length > 32) =>
           ret.tag = "Err" /\ ret.val = "InvalidInputError" /\ pool = NoPool
    /\ (ret.op = "Ipv6Pool::new" /\ ret.args.prefix_length > 128) =>
           ret.tag = "Err" /\ ret.val = "InvalidInputError" /\ pool = NoPool

\* C3's case: Ipv4Pool::new was called with a prefix length above 32 and
\* returned the error.
C3_Witness ==
    /\ ret.op = "Ipv4Pool::new"
    /\ ret.args.prefix_length = 33
    /\ ret.tag = "Err"

\* C4: the textual constructions (Ipv4Pool::from, Ipv6Pool::from,
\* within_from_str) accept exactly the texts address/prefix with one '/', a
\* valid address and a prefix length in 0..=WIDTH; every other text gives a
\* returned Err and never a panic.
C4_TextualConstruction ==
    /\ ret.op \in {"Ipv4Pool::from", "Ipv4::within_from_str"} =>
           ret.tag = (IF WellFormedCidr(ret.args.text, FALSE) THEN "Ok" ELSE "Err")
    /\ ret.op \in {"Ipv6Pool::from", "Ipv6::within_from_str"} =>
           ret.tag = (IF WellFormedCidr(ret.args.text, TRUE) THEN "Ok" ELSE "Err")

\* C5: CrossIpv4Pool::new and CrossIpv6Pool::new return an error exactly when
\* start > end; otherwise (start = end included) they return the range with
\* the fields start and end as given and the cursor next at start.
C5_RangeConstruction ==
    ret.op \in {"CrossIpv4Pool::new", "CrossIpv6Pool::new"} =>
        IF SeqLess(ret.args.end, ret.args.start)
        THEN ret.tag = "Err" /\ cross = NoCross
        ELSE /\ ret.tag = "Ok"
             /\ cross = ret.val
             /\ cross.start = PackedOf(ret.args.start)
             /\ cross.end = PackedOf(ret.args.end)
             /\ cross.next = PackedOf(ret.args.start)

\* C5's case: a range of one address (start = end) was constructed.
C5_Witness ==
    /\ ret.op = "CrossIpv4Pool::new"
    /\ ret.args.start = ret.args.end
    /\ ret.tag = "Ok"

\* C6: iterating a range built with start <= end, end possibly the maximum
\* address, yields start, start + 1, ..., end, each once and in order, then
\* None: the i-th address yielded is start + (i - 1) and is at most end, no
\* call panics, and None comes right after end.
C6_RangeIteration ==
    CrossBuilt =>
        /\ ret.tag # "Panic"
        /\ \A i \in 1..Len(out) :
               /\ PackedOf(out[i]) = Add(cross.start, NatBits(i - 1), CrossWidth).val
               /\ Le(PackedOf(out[i]), cross.end)
        /\ (ret.op \in NextOps /\ ret.tag = "None") =>
               Len(out) >= 1 /\ PackedOf(out[Len(out)]) = cross.end

\* C7: iteration terminates: the number of addresses a pool (prefix length
\* in [0, WIDTH]) or a range (start <= end) has yielded never exceeds its
\* block size or range length, next() never panics, and the cursor never
\* wraps around to below where it started.
C7_IterationTerminates ==
    /\ ret.op \in NextOps => ret.tag # "Panic"
    /\ PoolInRange =>
           /\ Len(out) = 0 \/ Lt(NatBits(Len(out) - 1), {PoolWidth - made.prefix_length})
           /\ Le(NatBits(INIT_NEXT_VALUE), pool.next)
    /\ CrossBuilt =>
           /\ \A i \in 1..Len(out) :
                  /\ ~Add(cross.start, NatBits(i - 1), CrossWidth).of
                  /\ Le(Add(cross.start, NatBits(i - 1), CrossWidth).val, cross.end)
           /\ Le(cross.start, cross.next)

\* C8: for a pool built at a prefix length in [0, WIDTH], contain(x) is true
\* for every address x the pool has yielded and false for every x outside
\* [network(), broadcast()], and contain_from_str of a text that parses
\* returns what contain returns for the parsed address.
C8_Containment ==
    /\ (ret.op \in {"Ipv4Pool::contain", "Ipv6Pool::contain"} /\ PoolInRange) =>
           /\ ret.args.address \in SeqRange(out) => ret.val = TRUE
           /\ (\/ Lt(PackedOf(ret.args.address), PoolNetwork)
               \/ Lt(PoolBroadcast, PackedOf(ret.args.address))) => ret.val = FALSE
    /\ (ret.op = "Ipv4Pool::contain_from_str" /\ PoolInRange /\ ParseIpv4(ret.args.text).ok) =>
           /\ ret.tag = "Ok"
           /\ ret.val = Ipv4Pool_contain(pool, ParseIpv4(ret.args.text).val)
    /\ (ret.op = "Ipv6Pool::contain_from_str" /\ PoolInRange /\ ParseIpv6(ret.args.text).ok) =>
           /\ ret.tag = "Ok"
           /\ ret.val = Ipv6Pool_contain(pool, ParseIpv6(ret.args.text).val)

\* C8's case: contain was asked about an address the pool has yielded.
C8_Witness ==
    /\ ret.op = "Ipv4Pool::contain"
    /\ PoolInRange
    /\ ret.args.address \in SeqRange(out)
    /\ ret.val = TRUE

\* C9: for every address and prefix length p in [0, 32] Ipv4::network(p)
\* returns addr & mask and Ipv4::broadcast(p) returns (addr & mask) | ~mask
\* (mask: the top p bits) without overflow, and network() and broadcast() of
\* the pool built from the same address and p return the same two values.
C9_NetworkBroadcast ==
    /\ (ret.op = "Ipv4::network" /\ ret.args.prefix_length <= IPV4_LEN) =>
           /\ ret.tag = "Ok"
           /\ ret.val = U32ToIpv4(BlockFirst(ret.args.address, ret.args.prefix_length))
    /\ (ret.op = "Ipv4::broadcast" /\ ret.args.prefix_length <= IPV4_LEN) =>
           /\ ret.tag = "Ok"
           /\ ret.val = U32ToIpv4(BlockLast(ret.args.address, ret.args.prefix_length))
    /\ (ret.op = "Ipv4Pool::network" /\ PoolInRange) =>
           ret.val = U32ToIpv4(BlockFirst(made.address, made.prefix_length))
    /\ (ret.op = "Ipv4Pool::broadcast" /\ PoolInRange) =>
           /\ ret.tag = "Ok"
           /\ ret.val = U32ToIpv4(BlockLast(made.address, made.prefix_length))

\* C10: the common-prefix operations return the number of leading bits on
\* which the two addresses agree: WIDTH exactly when they are equal, 0 when
\* their most significant bits differ, and they never underflow or panic.
C10_CommonPrefix ==
    /\ ret.op = "Ipv4::largest_identical_prefix" =>
           /\ ret.tag = "Ok"
           /\ ret.val = NatBits(LeadingAgree(PackedOf(ret.args.address),
                                             PackedOf(ret.args.target), IPV4_LEN))
    /\ ret.op = "Ipv6::max_identical_prefix" =>
           /\ ret.tag = "Ok"
           /\ ret.val = NatBits(LeadingAgree(PackedOf(ret.args.address),
                                             PackedOf(ret.args.target), IPV6_LEN))

\* C11: for every prefix length in [0, WIDTH] len() is size() - 2, the block
\* size less the network and the broadcast address, computed without
\* underflow or overflow: the pool's len() and the address's len(p) return a
\* value that with 2 added is 2^(WIDTH - p).
C11_UsableCount ==
    /\ (ret.op \in {"Ipv4Pool::len", "Ipv6Pool::len"} /\ PoolInRange) =>
           /\ ret.tag = "Ok"
           /\ Add(ret.val, NatBits(2), IPV6_LEN + 2).val = {PoolWidth - made.prefix_length}
    /\ (ret.op = "Ipv4::len" /\ ret.args.prefix_length <= IPV4_LEN) =>
           /\ ret.tag = "Ok"
           /\ Add(ret.val, NatBits(2), IPV6_LEN + 2).val = {IPV4_LEN - ret.args.prefix_length}
    /\ (ret.op = "Ipv6::len" /\ ret.args.prefix_length <= IPV6_LEN) =>
           /\ ret.tag = "Ok"
           /\ Add(ret.val, NatBits(2), IPV6_LEN + 2).val = {IPV6_LEN - ret.args.prefix_length}

\* The solicited-node style address of scope base ff0s::1:ff00:0 for the
\* address a: the base with the low 24 bits of a, by segments (the low 8 bits
\* of the seventh segment and the whole eighth).
ScopedMulticast(s, a) == <<65280 + s, 0, 0, 0, 0, 1, 65280 + (a[7] % 256), a[8]>>

\* C12: for every IPv6 address a, node_multicast(), link_multicast() and
\* site_multicast() return the scope base (ff01::1:ff00:0, ff02::1:ff00:0,
\* ff05::1:ff00:0) plus the low 24 bits of a.
C12_Multicast ==
    /\ ret.op = "Ipv6::node_multicast" =>
           ret.tag = "Ok" /\ ret.val = ScopedMulticast(1, ret.args.address)
    /\ ret.op = "Ipv6::link_multicast" =>
           ret.tag = "Ok" /\ ret.val = ScopedMulticast(2, ret.args.address)
    /\ ret.op = "Ipv6::site_multicast" =>
           ret.tag = "Ok" /\ ret.val = ScopedMulticast(5, ret.args.address)

\* C12's case: node_multicast of ::ffff:192.10.2.255 returned ff01::1:ff0a:2ff.
C12_Witness ==
    /\ ret.op = "Ipv6::node_multicast"
    /\ ret.args.address = <<0, 0, 0, 0, 0, 65535, 49162, 767>>
    /\ ret.val = <<65281, 0, 0, 0, 0, 1, 65290, 767>>


\* The text '<network-address>/<prefix-length>' of the block of a with prefix
\* length p, the address as the standard library writes it.
CidrText(a, p) ==
    IF Len(a) = 4
    THEN Ipv4Text(U32ToIpv4(BlockFirst(a, p))) \o Slash \o DecText(p)
    ELSE Ipv6Text(U128ToIpv6(BlockFirst(a, p))) \o Slash \o DecText(p)

\* The pool was built by Ipv4Pool::from from a text naming the first address
\* of its block.
FromAlignedText ==
    /\ PoolInRange /\ made.op = "Ipv4Pool::from"
    /\ Ipv4ToU32(made.address) = BlockFirst(made.address, made.prefix_length)

C14_Within ==
    /\ (ret.op \in {"Ipv4::within", "Ipv6::within"} /\ PoolInRange) =>
           ret.val = (PackedOf(ret.args.address) \cap TopBits(made.prefix_length, PoolWidth)
                      = BlockFirst(made.address, made.prefix_length))
    /\ (ret.op = "Ipv4::within_from_str" /\ WellFormedCidr(ret.args.text, FALSE)) =>
           \E built \in {Ipv4Pool_from(ret.args.text)} :
               /\ built.tag = "Ok" /\ ret.tag = "Ok"
               /\ ret.val = Ipv4_within(Ipv4_new(ret.args.address), built.val)
               /\ ret.val = Ipv4Pool_contain(built.val, ret.args.address)
    /\ (ret.op = "Ipv6::within_from_str" /\ WellFormedCidr(ret.args.text, TRUE)) =>
           \E built \in {Ipv6Pool_from(ret.args.text)} :
               /\ built.tag = "Ok" /\ ret.tag = "Ok"
               /\ ret.val = Ipv6_within(Ipv6_new(ret.args.address), built.val)
               /\ ret.val = Ipv6Pool_contain(built.val, ret.args.address)

\* The second pool was built by a constructor from an address of the first
\* pool's block, at the same prefix length.
OtherOfSameBlock ==
    /\ PoolBuilt /\ other.op \notin {"none", "copy"}
    /\ BlockFirst(other.address, made.prefix_length)
           = BlockFirst(made.address, made.prefix_length)

\* size() of a pool of either family.
SizeOf(p) == IF p.kind = "Ipv4Pool" THEN Ipv4Pool_size(p) ELSE Ipv6Pool_size(p)

\* The two pools have the same fields apart from the cursor, the same cursor
\* after the same number of yields, the same size() and, as far as both have
\* been iterated, the same sequence, which ends at the same place.
SamePool ==
    /\ other.inst.kind = pool.kind
    /\ other.inst.prefix = pool.prefix
    /\ other.inst.mask = pool.mask
    /\ other.inst.stop = pool.stop
    /\ Len(other.out) = Len(out) => other.inst.next = pool.next
    /\ SizeOf(other.inst) = SizeOf(pool)
    /\ \A i \in 1..Len(out) : i <= Len(other.out) => other.out[i] = out[i]
    /\ (ret.op \in NextOps /\ ret.tag = "None" /\ other.tag = "None") =>
           Len(other.out) = Len(out)

\* A step that changes one of the two pools leaves the other as it was.
OnePoolMoves ==
    other.inst.kind # "none" =>
        /\ other' # other => (pool' = pool /\ out' = out)
        /\ pool' # pool => other' = other

\* C15: for two addresses of one block and a prefix length p in [0, WIDTH],
\* the pools built from them by new, from or iter have the same prefix, mask,
\* next and stop, the same size() and the same iteration sequence; and
\* advancing one pool, or a copy of a pool, does not advance the other.
C15_BlockDeterminesPool ==
    /\ [](OtherOfSameBlock => SamePool)
    /\ [][OnePoolMoves]_vars

\* C15's case: the pool of 192.168.1.1/30 and a pool built by Ipv4::iter from
\* 192.168.1.2 at /30 have both yielded 192.168.1.1 and 192.168.1.2.
C15_Witness ==
    /\ other.op = "Ipv4::iter" /\ other.address = <<192, 168, 1, 2>>
    /\ made.address = <<192, 168, 1, 1>> /\ made.prefix_length = 30
    /\ out = <<(<<192, 168, 1, 1>>), (<<192, 168, 1, 2>>)>>
    /\ other.out = out

\* The step is a call of next() on the first instance.
NextCalled == calls' = calls + 1

\* What a call of next() on a pool does: it yields only while the cursor is
\* below the limit, and then the network address plus the cursor, moving the
\* cursor on by one (in the cursor's unsigned arithmetic); otherwise it leaves
\* the pool as it is; at or beyond the limit, and after a None, it returns None.
PoolNextStep ==
    /\ ret'.tag = "Some" =>
           /\ Lt(pool.next, pool.stop)
           /\ PackedOf(ret'.val) = Add(PoolNetwork, pool.next, PoolWidth).val
           /\ pool' = [pool EXCEPT !.next = Add(pool.next, NatBits(1), PoolWidth).val]
           /\ out' = Append(out, ret'.val)
    /\ ret'.tag # "Some" => (pool' = pool /\ out' = out)
    /\ ~Lt(pool.next, pool.stop) => ret'.tag = "None"
    /\ (ret.op \in NextOps /\ ret.tag = "None") => ret'.tag = "None"

\* The same for a range: it yields the cursor only while it is at most end.
CrossNextStep ==
    /\ ret'.tag = "Some" =>
           /\ Le(cross.next, cross.end)
           /\ PackedOf(ret'.val) = cross.next
           /\ cross' = [cross EXCEPT !.next = Add(cross.next, NatBits(1), CrossWidth).val]
           /\ out' = Append(out, ret'.val)
    /\ ret'.tag # "Some" => (cross' = cross /\ out' = out)
    /\ ~Le(cross.next, cross.end) => ret'.tag = "None"
    /\ (ret.op \in NextOps /\ ret.tag = "None") => ret'.tag = "None"

\* C16: next() yields network + cursor (the cursor, for a range) and advances
\* the cursor by one only while the cursor is below the limit (at most end);
\* once next() has returned None, every later next() on the instance returns
\* None and leaves the instance as it is.
C16_ExhaustionIsTerminal ==
    [][ /\ (NextCalled /\ PoolBuilt) => PoolNextStep
        /\ (NextCalled /\ CrossBuilt) => CrossNextStep
        /\ (other.op # "none" /\ other.tag = "None") =>
               (other'.tag = "None" /\ other'.inst = other.inst /\ other'.out = other.out) ]_vars

\* C16's case: next() has returned None at least twice in a row.
C16_Witness ==
    /\ ret.op \in NextOps /\ ret.tag = "None"
    /\ calls >= Len(out) + 2

\* C17: in every state of a range built successfully, whatever the number of
\* next() calls, start <= next <= end + 1 as mathematical integers, also when
\* end is the largest address of the family.
C17_RangeCursor ==
    CrossBuilt =>
        /\ Le(cross.start, cross.next)
        /\ Le(cross.next, Add(cross.end, NatBits(1), CrossWidth + 1).val)

\* The queries of a pool, and what the last one returns when asked of p.
PoolQueryOps ==
    { "Ipv4Pool::contain", "Ipv4Pool::contain_from_str", "Ipv4Pool::network",
      "Ipv4Pool::broadcast", "Ipv4Pool::size", "Ipv4Pool::len", "Ipv4Pool::fmt",
      "Ipv6Pool::contain", "Ipv6Pool::contain_from_str", "Ipv6Pool::network",
      "Ipv6Pool::size", "Ipv6Pool::len", "Ipv6Pool::fmt" }

AskedOf(p) ==
    CASE ret.op = "Ipv4Pool::contain" -> Ok(Ipv4Pool_contain(p, ret.args.address))
      [] ret.op = "Ipv4Pool::contain_from_str" -> Ipv4Pool_contain_from_str(p, ret.args.text)
      [] ret.op = "Ipv4Pool::network" -> Ok(Ipv4Pool_network(p))
      [] ret.op = "Ipv4Pool::broadcast" -> Ipv4Pool_broadcast(p)
      [] ret.op = "Ipv4Pool::size" -> Ipv4Pool_size(p)
      [] ret.op = "Ipv4Pool::len" -> Ipv4Pool_len(p)
      [] ret.op = "Ipv4Pool::fmt" -> Ok(Ipv4Pool_fmt(p))
      [] ret.op = "Ipv6Pool::contain" -> Ok(Ipv6Pool_contain(p, ret.args.address))
      [] ret.op = "Ipv6Pool::contain_from_str" -> Ipv6Pool_contain_from_str(p, ret.args.text)
      [] ret.op = "Ipv6Pool::network" -> Ok(Ipv6Pool_network(p))
      [] ret.op = "Ipv6Pool::size" -> Ipv6Pool_size(p)
      [] ret.op = "Ipv6Pool::len" -> Ipv6Pool_len(p)
      [] ret.op = "Ipv6Pool::fmt" -> Ok(Ipv6Pool_fmt(p))

\* The pool as its constructor returned it, rebuilt from the constructor's
\* arguments.
AsConstructed ==
    CASE made.op = "Ipv4Pool::new" -> Ipv4Pool_new(made.address, made.prefix_length).val
      [] made.op = "Ipv4Pool::from" -> Ipv4Pool_from(made.args.text).val
      [] made.op = "Ipv4::iter" -> Ipv4_iter(Ipv4_new(made.address), made.prefix_length).val
      [] made.op = "Ipv6Pool::new" -> Ipv6Pool_new(made.address, made.prefix_length).val
      [] made.op = "Ipv6::iter" -> Ipv6_iter(Ipv6_new(made.address), made.prefix_length).val
      [] made.op = "Ipv6Pool::from" -> Ipv6Pool_from(made.args.text).val

\* A step changes no field of a pool but next and no field of a range but
\* next, and a step that is a query changes no field at all.
OnlyCursorMoves ==
    /\ PoolBuilt => [pool' EXCEPT !.next = pool.next] = pool
    /\ CrossBuilt => [cross' EXCEPT !.next = cross.next] = cross
    /\ other.inst.kind # "none" => [other'.inst EXCEPT !.next = other.inst.next] = other.inst
    /\ (PoolBuilt /\ ret.op \notin PoolQueryOps /\ ret'.op \in PoolQueryOps) =>
           (pool' = pool /\ out' = out /\ other' = other)

\* C18: next() changes no field but the cursor: prefix, mask and stop of a
\* pool (start and end of a range) stay as the constructor set them; and
\* contain, contain_from_str, network, broadcast, size, len and Display
\* change no field, so that what they return is what they return for the pool
\* as it was constructed, however far it has been iterated.
C18_OnlyCursorMoves ==
    /\ [][OnlyCursorMoves]_vars
    /\ [](PoolBuilt => [pool EXCEPT !.next = NatBits(INIT_NEXT_VALUE)] = AsConstructed)
    /\ [](CrossBuilt => (cross.start = PackedOf(made.start) /\ cross.end = PackedOf(made.end)))
    /\ []((PoolBuilt /\ ret.op \in PoolQueryOps) =>
              \E r \in {AskedOf(AsConstructed)} : ret.tag = r.tag /\ ret.val = r.val)

\* C18's case: a query of a pool that has yielded two addresses.
C18_Witness ==
    /\ ret.op = "Ipv6Pool::fmt"
    /\ Len(out) = 2

\* The operations of an address that take a prefix length as a number.
RawPrefixOps ==
    { "Ipv4::iter", "Ipv4::network", "Ipv4::broadcast", "Ipv4::size", "Ipv4::len",
      "Ipv6::iter", "Ipv6::network", "Ipv6::size", "Ipv6::len" }

\* C19: for a prefix length above the width of the family (33..255 for IPv4,
\* 129..255 for IPv6) iter, network, broadcast, size and len of an address
\* return an error or a value: none of them panics on WIDTH - prefix_length.
C19_RawPrefixLength ==
    (/\ ret.op \in RawPrefixOps
     /\ ret.args.prefix_length > WidthOf(ret.args.address)) => ret.tag # "Panic"

\* C20: a pool built by new, from or iter at a prefix length p in [1, WIDTH]
\* starts with next = 1: it never yields the network address; it yields
\* network + 1, network + 2, ... and, when next() returns None, has yielded
\* exactly 2^(WIDTH - p) - 1 addresses, the last of them broadcast(); for
\* p = WIDTH it yields no address.
C20_CursorStartsAtOne ==
    (PoolBuilt /\ made.prefix_length \in 1..PoolWidth) =>
        /\ pool.next = Add(NatBits(Len(out)), NatBits(INIT_NEXT_VALUE), PoolWidth).val
        /\ \A i \in 1..Len(out) :
               /\ PackedOf(out[i]) # PoolNetwork
               /\ PackedOf(out[i]) = Add(PoolNetwork, NatBits(i), PoolWidth).val
        /\ (ret.op \in NextOps /\ ret.tag = "None") =>
               /\ Add(NatBits(Len(out)), NatBits(1), PoolWidth).val
                      = {PoolWidth - made.prefix_length}
               /\ Len(out) > 0 => PackedOf(out[Len(out)]) = PoolBroadcast
        /\ made.prefix_length = PoolWidth => Len(out) = 0

\* C20's case: the pool of Ipv4::iter(30) has yielded three addresses, the
\* last one its broadcast address, and then None.
C20_Witness ==
    /\ ret.op = "Ipv4Pool::next" /\ ret.tag = "None"
    /\ made.op = "Ipv4::iter" /\ made.prefix_length = 30
    /\ Len(out) = 3
    /\ PackedOf(out[3]) = PoolBroadcast

\* The scope base ff0s::1:ff00:0 as an unsigned integer, and the low 24 bits.
ScopeBase(s) == PackedOf(<<65280 + s, 0, 0, 0, 0, 1, 65280, 0>>)
Low24 == 0..23

\* The scope of a multicast call: 1 node, 2 link, 5 site.
ScopeOf(op) ==
    CASE op = "Ipv6::node_multicast" -> 1
      [] op = "Ipv6::link_multicast" -> 2
      [] op = "Ipv6::site_multicast" -> 5

\* C21: in node_multicast, link_multicast and site_multicast the addition
\* scope_base + (a & 0x00FFFFFF) never overflows 128 bits and never carries
\* out of bit 23: the result is scope_base OR (a & 0x00FFFFFF), its upper 104
\* bits those of the scope base and its low 24 bits those of a.
C21_NoCarry ==
    ret.op \in {"Ipv6::node_multicast", "Ipv6::link_multicast", "Ipv6::site_multicast"} =>
        /\ ret.tag = "Ok"
        /\ ScopeBase(ScopeOf(ret.op)) \cap Low24 = {}
        /\ PackedOf(ret.val)
               = ScopeBase(ScopeOf(ret.op)) \cup (PackedOf(ret.args.address) \cap Low24)
        /\ PackedOf(ret.val) \ Low24 = ScopeBase(ScopeOf(ret.op))
        /\ PackedOf(ret.val) \cap Low24 = PackedOf(ret.args.address) \cap Low24

\* C21's case: link_multicast of ffff:...:ffff, whose low 24 bits are all set,
\* returned ff02::1:ffff:ffff.
C21_Witness ==
    /\ ret.op = "Ipv6::link_multicast"
    /\ PackedOf(ret.args.address) \cap Low24 = Low24
    /\ ret.val = <<65282, 0, 0, 0, 0, 1, 65535, 65535>>
====
